---- MODULE Spec2Model ----
(***************************************************************************)
(* CACanvas (src/js/CACanvas.js): a double-buffered canvas for grid-based  *)
(* models.  The instance owns an off-screen buffer; draw and drawLine      *)
(* paint into the buffer through its 2D context, update blits the whole    *)
(* buffer onto a visible canvas looked up by id.                           *)
(*                                                                         *)
(* Pixels.  A surface is a function from <<px, py>> to a pixel value:      *)
(*   "T"        transparent black, the content of a fresh canvas           *)
(*   "#rrggbb"  an opaque colour                                           *)
(*   "A"        an anti-aliased blend that is still partly transparent     *)
(*   "O"        an anti-aliased blend that is opaque                       *)
(* All coordinates the class hands to the context are integers, so a       *)
(* pixel is the unit square [px, px+1] x [py, py+1] and every coverage     *)
(* test below is exact integer arithmetic.                                 *)
(***************************************************************************)
EXTENDS Integers, FiniteSets, Sequences, TLC

(* ---- bounds of the exploration ---- *)
MaxDim == 2
MaxCSize == 3
MaxOps == 3

(* ---- the default of the cSize parameter ---- *)
DefaultCSize == 20

Omitted == "omitted"

(* ---- inputs of Spec: positive dimensions, many drawing inputs ---- *)
Dims == 1..MaxDim
\* the arguments after size: an explicit cSize
CSizeArgs == {<<c>> : c \in 1..MaxCSize}
\* cells <<x, y>>: on the grid, beyond its far edge when size = 1, before its near edge
Cells == {<<0, 0>>, <<1, 0>>, <<0, 1>>, <<-1, 1>>}
ColorArgs == {"red", "#00ff00", "notacolor"}
\* lines <<x1, y1, x2, y2>>: sloped from off the grid, empty, level, upright, diagonal
Lines == {<<-1, 0, 1, 1>>, <<0, 0, 0, 0>>, <<0, 0, 1, 0>>, <<0, 0, 0, 1>>, <<0, 1, 1, 0>>}
CanvasIds == {"screen", "panel", "nosuch"}

(* ---- inputs of SpecSizes: many constructor inputs, few drawing inputs ---- *)
WideDims == 0..MaxDim
\* the arguments after size: none, or an explicit cSize
WideCSizeArgs == {<<>>} \cup {<<c>> : c \in 0..(MaxCSize + 4)}
FewCells == {<<0, 0>>, <<-1, 1>>}
FewLines == {<<0, 0, 1, 1>>, <<-1, 1, 1, 0>>}
FewIds == {"screen", "nosuch"}

\* pixel size of the visible canvas the page provides, and what it shows at first
VisSizes == {2}
PageFills == {"T", "#0000ff"}

VARIABLES
    inst,         \* "none" before construction, "ready" once the constructor returned
    size,         \* this.size
    cSize,        \* this.cSize
    bufW,         \* this.buffer.width
    bufH,         \* this.buffer.height
    buffer,       \* pixels of this.buffer
    fillStyle,    \* this.ctx.fillStyle
    strokeStyle,  \* this.ctx.strokeStyle
    path,         \* current path of this.ctx
    visW,         \* width and height of the visible canvas with id "screen"
    visible,      \* pixels of the visible canvas with id "screen"
    call,         \* the last call made on the class, with its arguments
    outcome,      \* "none" or the name of the exception the last call threw
    ret,          \* value returned by the last call
    nops          \* number of draw, drawLine and update calls made

vars == <<inst, size, cSize, bufW, bufH, buffer, fillStyle, strokeStyle, path,
          visW, visible, call, outcome, ret, nops>>

instVars == <<inst, size, cSize, bufW, bufH>>
ctxVars == <<fillStyle, strokeStyle, path>>
visVars == <<visW, visible>>

(* ---- arithmetic helpers ---- *)
Abs(n) == IF n < 0 THEN -n ELSE n
Min(a, b) == IF a < b THEN a ELSE b
Max(a, b) == IF a < b THEN b ELSE a

(* ---- the 2D backend: colours ---- *)

\* The colour a CSS colour string parses to, "invalid" when it does not parse.
ParseColor(s) ==
    CASE s = "red" -> "#ff0000"
      [] s = "blue" -> "#0000ff"
      [] s = "#00ff00" -> "#00ff00"
      [] s = "#000000" -> "#000000"
      [] s = "transparent" -> "T"
      [] OTHER -> "invalid"

\* Assignment to fillStyle / strokeStyle: a string that does not parse is ignored.
SetStyle(cur, s) == IF ParseColor(s) = "invalid" THEN cur ELSE ParseColor(s)

\* source-over of a fully covering paint of colour style on pixel dst
FullPaint(style, dst) == IF style = "T" THEN dst ELSE style

\* source-over of a partly covering (anti-aliased) paint of colour style on dst
PartPaint(style, dst) ==
    IF style = "T" \/ style = dst THEN dst
    ELSE IF dst \in {"T", "A"} THEN "A" ELSE "O"

\* source-over of image pixel src on pixel dst (drawImage)
Over(src, dst) ==
    IF src = "T" THEN dst
    ELSE IF src = "A" THEN (IF dst \in {"T", "A"} THEN "A" ELSE "O")
    ELSE src

(* ---- the 2D backend: coverage of a pixel by a path ---- *)

Pixels(w, h) == (0..(w - 1)) \X (0..(h - 1))
Blank(w, h) == [p \in Pixels(w, h) |-> "T"]

\* pixel (px, py) lies in the rectangle with corner (x, y) and extent w, h
InRect(px, py, x, y, w, h) == x <= px /\ px < x + w /\ y <= py /\ py < y + h

\* distance on one axis from c to the nearest / farthest point of [p, p+1]
NearD(c, p) == IF c < p THEN p - c ELSE IF c > p + 1 THEN c - (p + 1) ELSE 0
FarD(c, p) == Max(Abs(c - p), Abs(c - (p + 1)))
NearSq(px, py, cx, cy) == NearD(cx, px) * NearD(cx, px) + NearD(cy, py) * NearD(cy, py)
FarSq(px, py, cx, cy) == FarD(cx, px) * FarD(cx, px) + FarD(cy, py) * FarD(cy, py)

\* the disc of radius r around (cx, cy) covers the pixel / touches it
InDisc(px, py, cx, cy, r) == FarSq(px, py, cx, cy) <= r * r
TouchesDisc(px, py, cx, cy, r) == NearSq(px, py, cx, cy) < r * r

\* the stroke of width 1 along the circle of radius r touches the pixel
TouchesRing(px, py, cx, cy, r) ==
    /\ r > 0
    /\ Abs(2 * px + 1 - 2 * cx) <= 2 * r + 2
    /\ Abs(2 * py + 1 - 2 * cy) <= 2 * r + 2
    /\ 4 * NearSq(px, py, cx, cy) < (2 * r + 1) * (2 * r + 1)
    /\ 4 * FarSq(px, py, cx, cy) > (2 * r - 1) * (2 * r - 1)

\* the stroke of width 1 (butt caps) along the segment (x1, y1)-(x2, y2)
\* touches the pixel: separating axes of the pixel square and the stroke
TouchesSegment(px, py, x1, y1, x2, y2) ==
    LET dx == x2 - x1
        dy == y2 - y1
        len2 == dx * dx + dy * dy
        rad == Abs(dx) + Abs(dy)
        ux == 2 * px + 1 - 2 * x1
        uy == 2 * py + 1 - 2 * y1
        along == ux * dx + uy * dy
        across == Abs(uy * dx - ux * dy) - rad
        lox == Min(x1, x2) - px - 1
        hix == px - Max(x1, x2)
        loy == Min(y1, y2) - py - 1
        hiy == py - Max(y1, y2)
    IN  /\ len2 > 0
        /\ IF dy = 0 THEN lox < 0 /\ hix < 0 ELSE lox <= 0 /\ hix <= 0
        /\ IF dx = 0 THEN loy < 0 /\ hiy < 0 ELSE loy <= 0 /\ hiy <= 0
        /\ along + rad > 0
        /\ along - rad < 2 * len2
        /\ (across < 0 \/ across * across < len2)

(* ---- the 2D backend: fill, stroke, drawImage ---- *)

\* ctx.fill() of the current path with colour style
FillPath(buf, pth, style) ==
    IF pth = <<>> THEN buf
    ELSE LET s == pth[1] IN
         IF s[1] = "rect"
         THEN [p \in DOMAIN buf |->
                 IF InRect(p[1], p[2], s[2], s[3], s[4], s[5])
                 THEN FullPaint(style, buf[p]) ELSE buf[p]]
         ELSE IF s[1] = "arc"
         THEN [p \in DOMAIN buf |->
                 IF ~TouchesDisc(p[1], p[2], s[2], s[3], s[4]) THEN buf[p]
                 ELSE IF InDisc(p[1], p[2], s[2], s[3], s[4])
                      THEN FullPaint(style, buf[p])
                      ELSE PartPaint(style, buf[p])]
         ELSE buf

\* ctx.stroke() of the current path with colour style and the default lineWidth
StrokePath(buf, pth, style) ==
    IF pth = <<>> THEN buf
    ELSE LET s == pth[1] IN
         IF s[1] = "arc"
         THEN [p \in DOMAIN buf |->
                 IF TouchesRing(p[1], p[2], s[2], s[3], s[4])
                 THEN PartPaint(style, buf[p]) ELSE buf[p]]
         ELSE IF s[1] = "moveTo" /\ Len(pth) = 2
         THEN [p \in DOMAIN buf |->
                 IF TouchesSegment(p[1], p[2], s[2], s[3], pth[2][2], pth[2][3])
                 THEN PartPaint(style, buf[p]) ELSE buf[p]]
         ELSE buf

\* source pixels that destination index i of dn samples from a source of sn
Footprint(i, sn, dn) == ((i * sn) \div dn)..((((i + 1) * sn + dn - 1) \div dn) - 1)

\* the image value sampled over a block of source pixels
Sample(src, xs, ys) ==
    LET vals == {src[<<a, b>>] : a \in xs, b \in ys}
    IN  IF Cardinality(vals) = 1 THEN CHOOSE v \in vals : TRUE
        ELSE IF vals \cap {"T", "A"} # {} THEN "A" ELSE "O"

\* vctx.drawImage(src, 0, 0, sw, sh, 0, 0, dw, dh)
DrawImage(src, sw, sh, dst, dw, dh) ==
    [p \in DOMAIN dst |->
        Over(Sample(src, Footprint(p[1], sw, dw), Footprint(p[2], sh, dh)), dst[p])]

\* the value a canvas width / height attribute reflects after assignment of v
ReflectDim(v, dflt) == IF v >= 0 /\ v <= 2147483647 THEN v ELSE dflt

\* the elements of the hosting page that carry an id: one canvas, one element
\* that is not a canvas
Page == [screen |-> "canvas", panel |-> "element"]

\* variant: the lookup ignores the id and takes the page's canvas
GetFirstCanvas(id) == "canvas"

\* document.getElementById(id): the element, or "null" when the page has none
GetElementById(id) == IF id \in DOMAIN Page THEN Page[id] ELSE "null"

(* ---- the expressions the class computes ---- *)

\* variant: the side computed as a sum
BufferSideSum(d, c) == d + c

\* this.size * this.cSize, the value assigned to buffer.width and buffer.height
BufferSide(d, c) == d * c

\* variant: the cell's origin with x and y exchanged
CellRectSwapped(x, y, c) == <<"rect", y * c, x * c, c, c>>

\* variant: the cell's square one pixel too large
CellRectWide(x, y, c) == <<"rect", x * c, y * c, c + 1, c + 1>>

\* the arguments of ctx.rect in draw
CellRect(x, y, c) == <<"rect", x * c, y * c, c, c>>

\* Math.floor(this.cSize / 2)
Offset(c) == c \div 2

\* variant: the radius inset with the wrong sign
MarkerArcOutset(x, y, c) == <<"arc", x * c + Offset(c), y * c + Offset(c), Offset(c) + 1>>

\* the arguments of ctx.arc in draw (start angle 0, end angle 2 * Math.PI)
MarkerArc(x, y, c) == <<"arc", x * c + Offset(c), y * c + Offset(c), Offset(c) - 1>>

\* the arguments of ctx.moveTo and ctx.lineTo in drawLine
LineStart(x1, y1, c) == <<"moveTo", x1 * c + Offset(c), y1 * c + Offset(c)>>
\* variant: the end point without the offset on the y axis
LineEndNoOffset(x2, y2, c) == <<"lineTo", x2 * c + Offset(c), y2 * c>>

LineEnd(x2, y2, c) == <<"lineTo", x2 * c + Offset(c), y2 * c + Offset(c)>>

\* variant: drawImage(this.buffer, 0, 0), a copy without scaling
FlushUnscaled(buf, w, h, vis, vw, vh) ==
    [p \in DOMAIN vis |-> IF p \in DOMAIN buf THEN Over(buf[p], vis[p]) ELSE vis[p]]

\* the drawImage call of update: whole buffer onto the whole visible canvas
Flush(buf, w, h, vis, vw, vh) == DrawImage(buf, w, h, vis, vw, vh)

(* ---- the page before the instance exists ---- *)
Init ==
    /\ inst = "none"
    /\ size = 0 /\ cSize = 0 /\ bufW = 0 /\ bufH = 0
    /\ buffer = Blank(0, 0)
    /\ fillStyle = "#000000" /\ strokeStyle = "#000000" /\ path = <<>>
    /\ visW \in VisSizes
    /\ \E page \in PageFills : visible = [p \in Pixels(visW, visW) |-> page]
    /\ call = [op |-> "none", args |-> <<>>]
    /\ outcome = "none"
    /\ ret = <<>>
    /\ nops = 0

(* ---- new CACanvas(size, cSize = 20) ---- *)
Construct(d, rest) ==
    LET c == IF rest = <<>> THEN DefaultCSize ELSE rest[1]
        w == ReflectDim(BufferSide(d, c), 300)
        h == ReflectDim(BufferSide(d, c), 150)
    IN  /\ inst = "none"
        /\ inst' = "ready"
        /\ size' = d
        /\ cSize' = c
        /\ bufW' = w
        /\ bufH' = h
        /\ buffer' = Blank(w, h)
        /\ fillStyle' = "#000000" /\ strokeStyle' = "#000000" /\ path' = <<>>
        /\ call' = [op |-> "new", args |-> <<d, rest>>]
        /\ outcome' = "none"
        /\ ret' = <<>>
        /\ UNCHANGED <<visVars, nops>>

(* ---- draw(x, y, cellColor, circle = false, circleColor = "#000000") ---- *)
Draw(x, y, cellColor, circle, colorArg) ==
    LET rectPath == <<CellRect(x, y, cSize)>>
        fs1 == SetStyle(fillStyle, cellColor)
        buf1 == FillPath(buffer, rectPath, fs1)
        arcPath == <<MarkerArc(x, y, cSize)>>
        circleColor == IF colorArg = Omitted THEN "#000000" ELSE colorArg
        fs2 == SetStyle(fs1, circleColor)
        buf2 == FillPath(buf1, arcPath, fs2)
        buf3 == StrokePath(buf2, arcPath, "#000000")
    IN  /\ inst = "ready"
        /\ nops < MaxOps
        /\ nops' = nops + 1
        /\ call' = [op |-> "draw", args |-> <<x, y, cellColor, circle, colorArg>>]
        /\ IF circle # TRUE
           THEN /\ buffer' = buf1
                /\ fillStyle' = fs1
                /\ path' = rectPath
                /\ outcome' = "none"
                /\ ret' = <<cSize>>
                /\ UNCHANGED strokeStyle
           ELSE IF arcPath[1][4] < 0
           THEN \* arc() rejects a negative radius; the cell is already filled
                /\ buffer' = buf1
                /\ fillStyle' = fs1
                /\ path' = <<>>
                /\ outcome' = "IndexSizeError"
                /\ ret' = <<>>
                /\ UNCHANGED strokeStyle
           ELSE /\ buffer' = buf3
                /\ fillStyle' = fs2
                /\ strokeStyle' = "#000000"
                /\ path' = arcPath
                /\ outcome' = "none"
                /\ ret' = <<cSize>>
        /\ UNCHANGED <<instVars, visVars>>

(* ---- drawLine(x1, y1, x2, y2) ---- *)
DrawLine(x1, y1, x2, y2) ==
    LET linePath == <<LineStart(x1, y1, cSize), LineEnd(x2, y2, cSize)>>
    IN  /\ inst = "ready"
        /\ nops < MaxOps
        /\ nops' = nops + 1
        /\ call' = [op |-> "drawLine", args |-> <<x1, y1, x2, y2>>]
        /\ strokeStyle' = "#000000"
        /\ path' = linePath
        /\ buffer' = StrokePath(buffer, linePath, "#000000")
        /\ outcome' = "none"
        /\ ret' = <<>>
        /\ UNCHANGED <<instVars, fillStyle, visVars>>

(* ---- update(canvasID) ---- *)
Update(canvasID) ==
    /\ inst = "ready"
    /\ nops < MaxOps
    /\ nops' = nops + 1
    /\ call' = [op |-> "update", args |-> <<canvasID>>]
    /\ IF GetElementById(canvasID) # "canvas"
       THEN \* visible_canvas.getContext is a call on null or on a non-function
            /\ outcome' = "TypeError"
            /\ ret' = <<>>
            /\ UNCHANGED visible
       ELSE IF bufW = 0 \/ bufH = 0
       THEN \* drawImage rejects a canvas source without pixels
            /\ outcome' = "InvalidStateError"
            /\ ret' = <<>>
            /\ UNCHANGED visible
       ELSE /\ visible' = Flush(buffer, bufW, bufH, visible, visW, visW)
            /\ outcome' = "none"
            /\ ret' = <<visW>>
    /\ UNCHANGED <<instVars, buffer, ctxVars, visW>>

Next ==
    \/ \E d \in Dims, rest \in CSizeArgs : Construct(d, rest)
    \/ \E cell \in Cells, cellColor \in ColorArgs :
         Draw(cell[1], cell[2], cellColor, FALSE, Omitted)
    \/ \E cell \in Cells : Draw(cell[1], cell[2], "red", TRUE, "blue")
    \/ \E l \in Lines : DrawLine(l[1], l[2], l[3], l[4])
    \/ \E canvasID \in CanvasIds : Update(canvasID)

Spec == Init /\ [][Next]_vars

NextSizes ==
    \/ \E d \in WideDims, rest \in WideCSizeArgs : Construct(d, rest)
    \/ \E cell \in FewCells, circle \in BOOLEAN :
         Draw(cell[1], cell[2], "red", circle, Omitted)
    \/ \E l \in FewLines : DrawLine(l[1], l[2], l[3], l[4])
    \/ \E canvasID \in FewIds : Update(canvasID)

SpecSizes == Init /\ [][NextSizes]_vars

(***************************************************************************)
(* Properties                                                              *)
(***************************************************************************)

\* the arguments of the last call
Arg(i) == call.args[i]

\* a colour string that parses to an opaque colour
OpaqueColor(s) == ParseColor(s) \notin {"invalid", "T"}

\* pixel p lies in the square of cell (x, y)
InCell(p, x, y) ==
    /\ x * cSize <= p[1] /\ p[1] < x * cSize + cSize
    /\ y * cSize <= p[2] /\ p[2] < y * cSize + cSize

\* the page has a canvas under the id
IsCanvas(id) == id \in DOMAIN Page /\ Page[id] = "canvas"

\* the visible canvas has the pixel size of the buffer
SameSize == visW = bufW /\ visW = bufH

\* C1: for gridDimension d > 0 and cellPixelSize c > 0 (20 when omitted) the
\* constructed buffer is d*c pixels wide and high, and no later call resizes it.
C1_BufferSize ==
    /\ [](call.op = "new" =>
            /\ size = Arg(1)
            /\ cSize = IF Arg(2) = <<>> THEN 20 ELSE Arg(2)[1])
    /\ []((inst = "ready" /\ size > 0 /\ cSize > 0) =>
            /\ bufW = size * cSize
            /\ bufH = size * cSize
            /\ DOMAIN buffer = Pixels(size * cSize, size * cSize))
    /\ [][inst = "ready" =>
            /\ UNCHANGED <<size, cSize, bufW, bufH>>
            /\ DOMAIN buffer' = DOMAIN buffer]_vars

\* C1 witness: a default-sized 2 x 2 grid (40 x 40 pixels) after drawing and a flush
C1_Witness ==
    /\ inst = "ready" /\ size = 2 /\ cSize = 20 /\ bufW = 40 /\ bufH = 40
    /\ path # <<>>
    /\ call.op = "update" /\ outcome = "none"

\* C2: after draw(x, y, color) with an opaque colour and no marker every buffer
\* pixel of the cell's square holds exactly that colour, whatever it held
\* before; of two such draws in a row at one cell only the second colour stays.
C2_DrawFillsCell ==
    /\ []((call.op = "draw" /\ Arg(4) = FALSE /\ OpaqueColor(Arg(3))) =>
            /\ outcome = "none"
            /\ \A p \in DOMAIN buffer :
                  InCell(p, Arg(1), Arg(2)) => buffer[p] = ParseColor(Arg(3)))
    /\ [][(/\ call.op = "draw" /\ call'.op = "draw"
            /\ call.args[4] = FALSE /\ call'.args[4] = FALSE
            /\ call.args[1] = call'.args[1] /\ call.args[2] = call'.args[2]
            /\ OpaqueColor(call.args[3]) /\ OpaqueColor(call'.args[3])
            /\ ParseColor(call.args[3]) # ParseColor(call'.args[3])) =>
              \A p \in DOMAIN buffer :
                 InCell(p, call.args[1], call.args[2]) =>
                    /\ buffer[p] = ParseColor(call.args[3])
                    /\ buffer'[p] = ParseColor(call'.args[3])]_vars

\* C2 witness: cell (0, 0) was red (the visible canvas still shows the flushed
\* red) and a later draw turned its whole square green
C2_Witness ==
    /\ call = [op |-> "draw", args |-> <<0, 0, "#00ff00", FALSE, Omitted>>]
    /\ size = 2 /\ cSize = 1 /\ SameSize
    /\ visible[<<0, 0>>] = "#ff0000"
    /\ buffer[<<0, 0>>] = "#00ff00"

\* C3: for cellPixelSize c >= 2 the marker of draw(x, y, color, true, markerColor)
\* is the circle of radius floor(c/2) - 1 around (x*c + floor(c/2),
\* y*c + floor(c/2)), and the circle lies within the cell's square
\* [x*c, x*c + c] x [y*c, y*c + c].
C3_MarkerInsideCell ==
    (call.op = "draw" /\ Arg(4) = TRUE /\ cSize >= 2) =>
        /\ outcome = "none"
        /\ path = << <<"arc", Arg(1) * cSize + (cSize \div 2),
                             Arg(2) * cSize + (cSize \div 2),
                             (cSize \div 2) - 1>> >>
        /\ path[1][2] - path[1][4] >= Arg(1) * cSize
        /\ path[1][2] + path[1][4] <= Arg(1) * cSize + cSize
        /\ path[1][3] - path[1][4] >= Arg(2) * cSize
        /\ path[1][3] + path[1][4] <= Arg(2) * cSize + cSize

\* C3 witness: a marker on cell (-1, 1) of a grid with the odd cell size 7
C3_Witness ==
    /\ call.op = "draw" /\ Arg(4) = TRUE /\ Arg(1) = -1 /\ Arg(2) = 1
    /\ cSize = 7
    /\ path = << <<"arc", -4, 10, 2>> >>

\* C4: update(id) onto an existing visible canvas of the buffer's pixel size
\* leaves every visible pixel equal to the buffer pixel, whatever the canvas
\* showed before and whichever buffer pixels were never drawn.
C4_UpdateCopiesExactly ==
    (call.op = "update" /\ IsCanvas(Arg(1)) /\ SameSize) =>
        visible = buffer

\* the name section 7 of the design gives to the failure of an operation:
\* the exception update raises when its lookup yields nothing drawable
ErrorName(op, exception) ==
    IF op = "update" /\ exception = "TypeError" THEN "SurfaceNotFound" ELSE exception

\* C5: update(id) with an id that resolves to no drawable surface ends in
\* SurfaceNotFound and leaves the buffer and the visible canvas as they were.
C5_UpdateUnknownId ==
    [][(call'.op = "update" /\ ~IsCanvas(call'.args[1])) =>
          /\ ErrorName("update", outcome') = "SurfaceNotFound"
          /\ ret' = <<>>
          /\ buffer' = buffer
          /\ visible' = visible]_vars

\* C5 witness: a failed update while the buffer holds a frame the canvas lacks
C5_Witness ==
    /\ call = [op |-> "update", args |-> <<"nosuch">>]
    /\ outcome = "TypeError"
    /\ SameSize
    /\ \E p \in DOMAIN buffer : buffer[p] = "#ff0000" /\ visible[p] # "#ff0000"

\* C6: draw and drawLine never end in an error, for every instance with
\* gridDimension > 0 and cellPixelSize > 0 and every input.
C6_DrawingNeverFails ==
    (size > 0 /\ cSize > 0 /\ call.op \in {"draw", "drawLine"}) => outcome = "none"

\* C7: construction with gridDimension <= 0 or cellPixelSize <= 0 fails with
\* InvalidDimension and yields no usable instance.
C7_InvalidDimension ==
    (call.op = "new" /\ (Arg(1) <= 0 \/ (Arg(2) # <<>> /\ Arg(2)[1] <= 0))) =>
        outcome = "InvalidDimension" /\ inst = "none"

\* C8: draw and drawLine leave the visible canvas unchanged; it changes only
\* in an update, in one step, to the blit of the whole current buffer, so that
\* every pixel drawn since the last flush shows at once.
C8_VisibleChangesOnlyOnUpdate ==
    [][/\ call'.op \in {"draw", "drawLine"} => UNCHANGED <<visW, visible>>
       /\ visible' # visible =>
            /\ call'.op = "update"
            /\ outcome' = "none"
            /\ buffer' = buffer
            /\ visible' = DrawImage(buffer, bufW, bufH, visible, visW, visW)
       /\ (call'.op = "update" /\ outcome' = "none" /\ SameSize) =>
            \A p \in DOMAIN buffer :
               buffer[p] \notin {"T", "A"} => visible'[p] = buffer[p]]_vars

\* C8 witness: a cell drawn and flushed, a later draw of another cell not yet visible
C8_Witness ==
    /\ call.op = "draw" /\ outcome = "none"
    /\ size = 2 /\ cSize = 1 /\ SameSize
    /\ buffer[<<0, 0>>] = "#ff0000" /\ buffer[<<1, 0>>] = "#00ff00"
    /\ visible[<<0, 0>>] = "#ff0000" /\ visible[<<1, 0>>] \in {"T", "#0000ff"}

\* C9: nothing clears the buffer: draw(x, y, color) without a marker leaves
\* every buffer pixel outside the cell's square unchanged (all of them when the
\* cell lies outside the grid), and update leaves every buffer pixel unchanged.
C9_BufferAccumulates ==
    [][/\ (call'.op = "draw" /\ call'.args[4] = FALSE) =>
             /\ \A p \in DOMAIN buffer :
                   ~InCell(p, call'.args[1], call'.args[2]) => buffer'[p] = buffer[p]
             /\ (\/ call'.args[1] < 0 \/ call'.args[1] >= size
                 \/ call'.args[2] < 0 \/ call'.args[2] >= size) => buffer' = buffer
       /\ call'.op = "update" => buffer' = buffer]_vars

\* C9 witness: cell (0, 0) drawn green, cell (1, 0) drawn red later, then a
\* flush; the first cell still holds its colour
C9_Witness ==
    /\ call.op = "update" /\ outcome = "none"
    /\ size = 2 /\ cSize = 2
    /\ buffer[<<0, 0>>] = "#00ff00" /\ buffer[<<1, 1>>] = "#00ff00"
    /\ buffer[<<2, 0>>] = "#ff0000" /\ buffer[<<3, 1>>] = "#ff0000"

\* C10: drawLine(x1, y1, x2, y2) strokes the segment from (x1*c + floor(c/2),
\* y1*c + floor(c/2)) to (x2*c + floor(c/2), y2*c + floor(c/2)), the centres
\* draw uses for the marker, in black that it sets itself.
C10_LineJoinsCellCentres ==
    call.op = "drawLine" =>
        /\ outcome = "none"
        /\ strokeStyle = "#000000"
        /\ path = << <<"moveTo", Arg(1) * cSize + (cSize \div 2),
                                Arg(2) * cSize + (cSize \div 2)>>,
                     <<"lineTo", Arg(3) * cSize + (cSize \div 2),
                                Arg(4) * cSize + (cSize \div 2)>> >>
        /\ <<path[1][2], path[1][3]>> =
              <<MarkerArc(Arg(1), Arg(2), cSize)[2], MarkerArc(Arg(1), Arg(2), cSize)[3]>>
        /\ <<path[2][2], path[2][3]>> =
              <<MarkerArc(Arg(3), Arg(4), cSize)[2], MarkerArc(Arg(3), Arg(4), cSize)[3]>>

\* C10 witness: a line from the off-grid cell (-1, 0) to cell (1, 1), cell size 3
C10_Witness ==
    /\ call = [op |-> "drawLine", args |-> <<-1, 0, 1, 1>>]
    /\ cSize = 3 /\ size = 2
    /\ path = << <<"moveTo", -2, 1>>, <<"lineTo", 4, 4>> >>
    /\ \E p \in DOMAIN buffer : buffer[p] = "A"

====
